---- MODULE Spec2Model ----
(***************************************************************************)
(* The class-based views of turbo_response/views.py, driven one request    *)
(* at a time against a table of TodoItem rows.                             *)
(*                                                                         *)
(* views.py holds the class declarations, TurboStreamView.dispatch,        *)
(* TurboStreamTemplateView.render_to_response and TurboStreamDeleteView.   *)
(* The mixins it composes (turbo_response/mixins.py) and the stream        *)
(* renderer are not among the sources: they are modelled from the          *)
(* specification and from what tests/test_views.py asserts of them.        *)
(***************************************************************************)
EXTENDS Naturals, Sequences, FiniteSets, TLC

\* The primary keys the table's sequence hands out are 1..MaxPk.
MaxPk == 3

(***************************************************************************)
(* Python values.  An Optional value is a set of at most one element:      *)
(* None is the empty set.  A str is a sequence of tokens, each token a     *)
(* run of ordinary characters or one character that HTML escapes; Join     *)
(* gives the text.                                                         *)
(***************************************************************************)
None == {}

Some(x) == {x}

Get(o) == CHOOSE x \in o : TRUE

RECURSIVE Join(_)
Join(s) == IF s = <<>> THEN "" ELSE Head(s) \o Join(Tail(s))

\* str(x) of an Optional[int], as an f-string formats it.
PyStr(o) == IF o = None THEN <<"None">> ELSE <<ToString(Get(o))>>

(***************************************************************************)
(* The stream renderer: <turbo-stream action target><template>body.        *)
(***************************************************************************)
escape_char(c) ==
    CASE c = "&" -> "&amp;"
      [] c = "<" -> "&lt;"
      [] c = ">" -> "&gt;"
      [] c = "\"" -> "&quot;"
      [] c = "'" -> "&#x27;"
      [] OTHER -> c

escape(s) == [i \in 1..Len(s) |-> escape_char(s[i])]

render_turbo_stream_unescaped(action, target, content) ==
    "<turbo-stream action=\"" \o Join(action) \o "\" target=\""
        \o Join(target) \o "\"><template>" \o Join(content)
        \o "</template></turbo-stream>"

render_turbo_stream(action, target, content) ==
    "<turbo-stream action=\"" \o Join(escape(action)) \o "\" target=\""
        \o Join(escape(target)) \o "\"><template>" \o Join(content)
        \o "</template></turbo-stream>"

(***************************************************************************)
(* Responses, and an exception that leaves the view.                       *)
(***************************************************************************)
HTML == "text/html; charset=utf-8"

TURBO_STREAM == "text/html; turbo-stream; charset=utf-8"

NoResponse == [kind |-> "none"]

Raise(exc) == [kind |-> "exception", type |-> exc]

TurboStreamResponse(action, target, content) ==
    [kind |-> "stream", status_code |-> 200, content_type |-> TURBO_STREAM,
     action |-> action, target |-> target,
     content |-> render_turbo_stream(action, target, content)]

(***************************************************************************)
(* turbo_response.Action                                                   *)
(***************************************************************************)
REPLACE == <<"replace">>

REMOVE == <<"remove">>

(***************************************************************************)
(* The classes views.py declares: their bases, in the order written, and   *)
(* the names each class body defines.  A name is looked up on the class    *)
(* first and then on the bases from left to right.                         *)
(***************************************************************************)
FormViews == {"TurboFormView", "TurboCreateView", "TurboUpdateView"}

\* As Bases, with TurboFormView's two bases in the other order.
Bases_form_view_first(view) ==
    CASE view = "TurboStreamView" -> <<"TurboStreamResponseMixin", "View">>
      [] view = "TurboStreamTemplateView" ->
             <<"TurboStreamTemplateResponseMixin", "TemplateView">>
      [] view = "TurboFormView" -> <<"FormView", "TurboFormMixin">>
      [] view = "TurboCreateView" -> <<"TurboFormModelMixin", "CreateView">>
      [] view = "TurboUpdateView" -> <<"TurboFormModelMixin", "UpdateView">>
      [] view = "TurboStreamDeleteView" ->
             <<"TurboStreamResponseMixin", "DeleteView">>

\* As Bases, with TurboCreateView built on UpdateView.
Bases_create_on_update(view) ==
    CASE view = "TurboStreamView" -> <<"TurboStreamResponseMixin", "View">>
      [] view = "TurboStreamTemplateView" ->
             <<"TurboStreamTemplateResponseMixin", "TemplateView">>
      [] view = "TurboFormView" -> <<"TurboFormMixin", "FormView">>
      [] view = "TurboCreateView" -> <<"TurboFormModelMixin", "UpdateView">>
      [] view = "TurboUpdateView" -> <<"TurboFormModelMixin", "UpdateView">>
      [] view = "TurboStreamDeleteView" ->
             <<"TurboStreamResponseMixin", "DeleteView">>

Bases(view) ==
    CASE view = "TurboStreamView" -> <<"TurboStreamResponseMixin", "View">>
      [] view = "TurboStreamTemplateView" ->
             <<"TurboStreamTemplateResponseMixin", "TemplateView">>
      [] view = "TurboFormView" -> <<"TurboFormMixin", "FormView">>
      [] view = "TurboCreateView" -> <<"TurboFormModelMixin", "CreateView">>
      [] view = "TurboUpdateView" -> <<"TurboFormModelMixin", "UpdateView">>
      [] view = "TurboStreamDeleteView" ->
             <<"TurboStreamResponseMixin", "DeleteView">>

Own(view) ==
    CASE view = "TurboStreamView" -> {"dispatch"}
      [] view = "TurboStreamTemplateView" -> {"render_to_response"}
      [] view = "TurboStreamDeleteView" ->
             {"turbo_stream_action", "get_turbo_stream_target", "delete"}
      [] OTHER -> {}

\* What the generic views define.
DjangoDefines(cls) ==
    CASE cls = "View" -> {"dispatch"}
      [] cls = "TemplateView" -> {"dispatch", "get", "render_to_response"}
      [] cls = "FormView" ->
             {"dispatch", "get", "post", "render_to_response",
              "form_valid", "form_invalid"}
      [] cls \in {"CreateView", "UpdateView"} ->
             {"dispatch", "get", "post", "render_to_response",
              "form_valid", "form_invalid", "save"}
      [] cls = "DeleteView" ->
             {"dispatch", "get", "post", "delete", "render_to_response"}
      [] OTHER -> {}

FormMixins == {"TurboFormMixin", "TurboFormModelMixin"}

\* As Defines, with form mixins that override render_to_response as well.
Defines_render_to_response(cls) ==
    CASE cls = "TurboStreamResponseMixin" ->
             {"turbo_stream_action", "turbo_stream_target",
              "get_turbo_stream_action", "get_turbo_stream_target",
              "get_response_content", "render_turbo_stream_response"}
      [] cls = "TurboStreamTemplateResponseMixin" ->
             {"turbo_stream_action", "turbo_stream_target",
              "get_turbo_stream_action", "get_turbo_stream_target",
              "render_turbo_stream_template_response"}
      [] cls \in FormMixins ->
             {"turbo_stream_action", "turbo_stream_target",
              "get_turbo_stream_action", "get_turbo_stream_target",
              "render_turbo_stream_template_response", "form_invalid",
              "render_to_response"}
      [] OTHER -> DjangoDefines(cls)

\* What the mixins of turbo_response/mixins.py define.
Defines(cls) ==
    CASE cls = "TurboStreamResponseMixin" ->
             {"turbo_stream_action", "turbo_stream_target",
              "get_turbo_stream_action", "get_turbo_stream_target",
              "get_response_content", "render_turbo_stream_response"}
      [] cls = "TurboStreamTemplateResponseMixin" ->
             {"turbo_stream_action", "turbo_stream_target",
              "get_turbo_stream_action", "get_turbo_stream_target",
              "render_turbo_stream_template_response"}
      [] cls \in FormMixins ->
             {"turbo_stream_action", "turbo_stream_target",
              "get_turbo_stream_action", "get_turbo_stream_target",
              "render_turbo_stream_template_response", "form_invalid"}
      [] OTHER -> DjangoDefines(cls)

\* The class whose definition of name a view of class view runs.
Resolve(view, name) ==
    IF name \in Own(view) THEN view
    ELSE LET bs == Bases(view)
             at == {i \in 1..Len(bs) : name \in Defines(bs[i])}
         IN  IF at = {} THEN "object"
             ELSE bs[CHOOSE i \in at : \A j \in at : i <= j]

(***************************************************************************)
(* A view instance: what as_view, its initkwargs and the class attributes  *)
(* configure, the request it serves, and self.object.                      *)
(***************************************************************************)
Unsaved == [pk |-> None, description |-> ""]

TurboStreamDeleteView_turbo_stream_action == REMOVE

TurboFormMixin_turbo_stream_action == REPLACE

\* The class attribute turbo_stream_action a view of class view inherits.
class_turbo_stream_action(view) ==
    LET c == Resolve(view, "turbo_stream_action")
    IN  CASE c = "TurboStreamDeleteView" ->
                 Some(TurboStreamDeleteView_turbo_stream_action)
          [] c \in FormMixins ->
                 Some(TurboFormMixin_turbo_stream_action)
          [] OTHER -> None

Defaults(view) ==
    [view |-> view, method |-> "GET", pk |-> None, data |-> "",
     turbo_stream_target |-> None,
     turbo_stream_action |-> class_turbo_stream_action(view),
     content |-> <<>>, template_name |-> "simple.html",
     success_url |-> "/done/", model_name |-> <<"todoitem">>,
     object |-> Unsaved]

\* initkwargs override the class attributes, on the instance.
as_view(view, initkwargs) == initkwargs @@ Defaults(view)

(***************************************************************************)
(* TurboStreamResponseMixin and TurboStreamTemplateResponseMixin.          *)
(***************************************************************************)
TurboStreamDeleteView_get_turbo_stream_target_configured(self) ==
    IF self.turbo_stream_target = None
    THEN self.model_name \o <<"-">> \o PyStr(self.object.pk)
    ELSE Get(self.turbo_stream_target)

TurboStreamDeleteView_get_turbo_stream_target(self) ==
    self.model_name \o <<"-">> \o PyStr(self.object.pk)

get_turbo_stream_target(self) ==
    IF Resolve(self.view, "get_turbo_stream_target") = "TurboStreamDeleteView"
    THEN Some(TurboStreamDeleteView_get_turbo_stream_target(self))
    ELSE self.turbo_stream_target

get_turbo_stream_action(self) == self.turbo_stream_action

get_response_content(self) == self.content

render_turbo_stream_response(self) ==
    LET target == get_turbo_stream_target(self)
        action == get_turbo_stream_action(self)
    IN  IF target = None \/ action = None THEN Raise("ImproperlyConfigured")
        ELSE TurboStreamResponse(Get(action), Get(target),
                                 get_response_content(self))

TemplateResponse(template_name, context) ==
    [kind |-> "template", status_code |-> 200, content_type |-> HTML,
     template_name |-> <<template_name>>, context_data |-> context]

render_turbo_stream_template_response(self, context, template_name) ==
    LET target == get_turbo_stream_target(self)
        action == get_turbo_stream_action(self)
    IN  IF target = None \/ action = None THEN Raise("ImproperlyConfigured")
        ELSE [kind |-> "template", status_code |-> 200,
              content_type |-> TURBO_STREAM,
              template_name |-> <<template_name>>,
              context_data |->
                  [is_turbo_stream |-> TRUE,
                   turbo_stream_action |-> Get(action),
                   turbo_stream_target |-> Get(target)] @@ context]

(***************************************************************************)
(* TurboStreamView and TurboStreamTemplateView.                            *)
(***************************************************************************)
HttpResponseNotAllowed ==
    [kind |-> "not_allowed", status_code |-> 405, content_type |-> HTML]

TurboStreamView_dispatch(self) == render_turbo_stream_response(self)

TurboStreamTemplateView_render_to_response(self, context) ==
    render_turbo_stream_template_response(self, context, self.template_name)

render_to_response(self, context) ==
    IF Resolve(self.view, "render_to_response")
           \in {"TurboStreamTemplateView"} \cup FormMixins
    THEN TurboStreamTemplateView_render_to_response(self, context)
    ELSE TemplateResponse(self.template_name, context)

\* View.dispatch: the handler named after the method, or 405.
dispatch(self) ==
    IF Resolve(self.view, "dispatch") = "TurboStreamView"
    THEN TurboStreamView_dispatch(self)
    ELSE HttpResponseNotAllowed

(***************************************************************************)
(* The table of TodoItem rows, and the generic views' use of it.           *)
(***************************************************************************)
Without(rows, k) == [j \in DOMAIN rows \ {k} |-> rows[j]]

\* SingleObjectMixin.get_object: the row of the URL's pk; None is Http404.
get_object(rows, self) ==
    IF self.pk # None /\ Get(self.pk) \in DOMAIN rows
    THEN Some([pk |-> self.pk, description |-> rows[Get(self.pk)]])
    ELSE None

\* Model.delete(): the row goes, and the instance's pk is set to None.
object_delete(rows, object) ==
    [rows |-> Without(rows, Get(object.pk)),
     object |-> [object EXCEPT !.pk = None]]

\* description = forms.CharField(): required.
is_valid(data) == data # ""

\* ModelForm.save(): an instance without a pk is inserted, another updated.
form_save(rows, next_pk, object, data) ==
    IF object.pk = None
    THEN [rows |-> (next_pk :> data) @@ rows, next_pk |-> next_pk + 1,
          object |-> [pk |-> Some(next_pk), description |-> data]]
    ELSE [rows |-> [rows EXCEPT ![Get(object.pk)] = data],
          next_pk |-> next_pk,
          object |-> [object EXCEPT !.description = data]]

HttpResponseRedirect(url) ==
    [kind |-> "redirect", content_type |-> HTML, url |-> url]

Result(returned, self, rows, next_pk) ==
    [returned |-> returned, self |-> self, rows |-> rows,
     next_pk |-> next_pk]

\* As form_valid, answering with the form's template and not a redirect.
form_valid_rendering(self, rows, next_pk) ==
    IF Resolve(self.view, "save") \in {"CreateView", "UpdateView"}
    THEN LET saved == form_save(rows, next_pk, self.object, self.data)
         IN  Result(TemplateResponse(self.template_name, [form |-> self.data]),
                    [self EXCEPT !.object = saved.object],
                    saved.rows, saved.next_pk)
    ELSE Result(TemplateResponse(self.template_name, [form |-> self.data]),
                self, rows, next_pk)

form_valid(self, rows, next_pk) ==
    IF Resolve(self.view, "save") \in {"CreateView", "UpdateView"}
    THEN LET saved == form_save(rows, next_pk, self.object, self.data)
         IN  Result(HttpResponseRedirect(self.success_url),
                    [self EXCEPT !.object = saved.object],
                    saved.rows, saved.next_pk)
    ELSE Result(HttpResponseRedirect(self.success_url), self, rows, next_pk)

form_invalid(self) ==
    IF Resolve(self.view, "form_invalid") \in FormMixins
    THEN render_turbo_stream_template_response(
             self, [form |-> self.data], "_" \o self.template_name)
    ELSE render_to_response(self, [form |-> self.data])

\* self.object as get() and post() set it: None for a create view, the row
\* for an update view; Http404 when there is no such row.
load_object(self, rows) ==
    CASE Resolve(self.view, "post") = "UpdateView" -> get_object(rows, self)
      [] OTHER -> Some(Unsaved)

get(self, rows, next_pk) ==
    LET o == load_object(self, rows)
    IN  IF o = None THEN Result(Raise("Http404"), self, rows, next_pk)
        ELSE LET me == [self EXCEPT !.object = Get(o)]
             IN  Result(render_to_response(me, [form |-> me.object.description]),
                        me, rows, next_pk)

post(self, rows, next_pk) ==
    LET o == load_object(self, rows)
    IN  IF o = None THEN Result(Raise("Http404"), self, rows, next_pk)
        ELSE LET me == [self EXCEPT !.object = Get(o)]
             IN  IF is_valid(me.data) THEN form_valid(me, rows, next_pk)
                 ELSE Result(form_invalid(me), me, rows, next_pk)

(***************************************************************************)
(* TurboStreamDeleteView.delete: its statements, in the order written.     *)
(***************************************************************************)
delete_body_delete_first ==
    <<"get_object", "object_delete", "render_turbo_stream_response",
      "return_response">>

delete_body_render_again ==
    <<"get_object", "render_turbo_stream_response", "object_delete",
      "render_turbo_stream_response", "return_response">>

delete_body ==
    <<"get_object", "render_turbo_stream_response", "object_delete",
      "return_response">>

(***************************************************************************)
(* The requests served.                                                    *)
(***************************************************************************)
Methods == {"GET", "POST", "DELETE"}

PKs == 1..MaxPk

Targets ==
    {None, Some(<<"test">>), Some(<<"it", "\"", "em", "&", "<", "1", ">">>)}

StreamActions == {None, Some(REPLACE), Some(<<"app", "'", "end">>)}

Contents == {<<"hello">>, <<"<", "b", ">", "Tom ", "&", " Co">>}

TemplateNames == {"simple.html", "list.html"}

\* A form view's template_name and success_url, as its class configures them.
FormConfigs ==
    {[template_name |-> "my_form.html", success_url |-> "/done/"],
     [template_name |-> "form.html", success_url |-> "/todos/"]}

ModelNames == {<<"todo">>, <<"todoitem">>}

Data == {"", "ok", "updated!"}

VARIABLES
    storage,    \* the TodoItem table: pk -> description
    next_pk,    \* the next pk the table hands out
    self,       \* the view instance serving the current (or last) request
    pc,         \* 0: no request in delete(); i: delete_body[i] runs next
    response,   \* delete()'s local variable
    returned,   \* what the view gave the framework: a response or an exception
    trace,      \* the steps delete() has taken for the current request
    storage0    \* the table as the current request found it

vars == <<storage, next_pk, self, pc, response, returned, trace, storage0>>

Init ==
    /\ storage = <<>>
    /\ next_pk = 1
    /\ self = Defaults("TurboStreamView")
    /\ pc = 0
    /\ response = NoResponse
    /\ returned = NoResponse
    /\ trace = <<>>
    /\ storage0 = <<>>

\* A handler that runs from the request to its response in one piece.
Serve(r) ==
    /\ pc = 0
    /\ r.next_pk <= MaxPk + 1
    /\ self' = r.self
    /\ returned' = r.returned
    /\ storage' = r.rows
    /\ next_pk' = r.next_pk
    /\ response' = NoResponse
    /\ trace' = <<>>
    /\ storage0' = storage
    /\ pc' = 0

StreamViewRequest ==
    \E m \in Methods, t \in Targets, a \in StreamActions, c \in Contents :
        LET me == as_view("TurboStreamView",
                          [method |-> m, turbo_stream_target |-> t,
                           turbo_stream_action |-> a, content |-> c])
        IN  Serve(Result(dispatch(me), me, storage, next_pk))

TemplateViewGet ==
    \E t \in Targets, a \in StreamActions, n \in TemplateNames :
        LET me == as_view("TurboStreamTemplateView",
                          [method |-> "GET", turbo_stream_target |-> t,
                           turbo_stream_action |-> a, template_name |-> n])
        IN  Serve(Result(render_to_response(me, [view |-> me.view]),
                         me, storage, next_pk))

\* The pk of the URL: an update view's urls carry one.
KeysOf(v) == IF v = "TurboUpdateView" THEN {Some(k) : k \in PKs} ELSE {None}

FormInstance(v, m, k, t, n, d) ==
    as_view(v, [method |-> m, turbo_stream_target |-> t,
                template_name |-> n.template_name,
                success_url |-> n.success_url, data |-> d,
                pk |-> k])

FormGet ==
    \E v \in FormViews, t \in Targets, n \in FormConfigs :
      \E k \in KeysOf(v) :
        Serve(get(FormInstance(v, "GET", k, t, n, ""), storage, next_pk))

FormPost ==
    \E v \in FormViews, t \in Targets, n \in FormConfigs, d \in Data :
      \E k \in KeysOf(v) :
        Serve(post(FormInstance(v, "POST", k, t, n, d), storage, next_pk))

(***************************************************************************)
(* TurboStreamDeleteView: post() and the DELETE method both call delete(). *)
(***************************************************************************)
Persisted(rows) == self.pk # None /\ Get(self.pk) \in DOMAIN rows

Step(name, rows, resp) ==
    [step |-> name, persisted |-> Persisted(rows), response |-> resp]

Runs(name) == pc \in 1..Len(delete_body) /\ delete_body[pc] = name

DeleteRequest ==
    /\ pc = 0
    /\ \E m \in {"POST", "DELETE"}, k \in PKs, t \in Targets,
          mn \in ModelNames :
           self' = as_view("TurboStreamDeleteView",
                           [method |-> m, pk |-> Some(k),
                            turbo_stream_target |-> t, model_name |-> mn])
    /\ pc' = 1
    /\ response' = NoResponse
    /\ returned' = NoResponse
    /\ trace' = <<>>
    /\ storage0' = storage
    /\ UNCHANGED <<storage, next_pk>>

\* As DeleteGetObject, with a lookup that gives a new instance for no row.
DeleteGetObject_or_new ==
    /\ Runs("get_object")
    /\ LET o == get_object(storage, self)
       IN  self' = [self EXCEPT !.object = IF o = None THEN Unsaved ELSE Get(o)]
    /\ pc' = pc + 1
    /\ trace' = Append(trace, Step("get_object", storage, response))
    /\ UNCHANGED <<storage, next_pk, response, returned, storage0>>

DeleteGetObject ==
    /\ Runs("get_object")
    /\ LET o == get_object(storage, self)
       IN  IF o = None
           THEN /\ returned' = Raise("Http404")
                /\ pc' = 0
                /\ self' = self
           ELSE /\ self' = [self EXCEPT !.object = Get(o)]
                /\ pc' = pc + 1
                /\ returned' = returned
    /\ trace' = Append(trace, Step("get_object", storage, response))
    /\ UNCHANGED <<storage, next_pk, response, storage0>>

DeleteRender ==
    /\ Runs("render_turbo_stream_response")
    /\ LET r == render_turbo_stream_response(self)
       IN  IF r.kind = "exception"
           THEN /\ returned' = r
                /\ pc' = 0
                /\ response' = response
           ELSE /\ response' = r
                /\ pc' = pc + 1
                /\ returned' = returned
    /\ trace' = trace \o
                  <<Step("get_turbo_stream_target", storage, response),
                    Step("render_turbo_stream_response", storage, response')>>
    /\ UNCHANGED <<storage, next_pk, self, storage0>>

DeleteObject ==
    /\ Runs("object_delete")
    /\ LET d == object_delete(storage, self.object)
       IN  /\ storage' = d.rows
           /\ self' = [self EXCEPT !.object = d.object]
    /\ pc' = pc + 1
    /\ trace' = Append(trace, Step("object_delete", storage', response))
    /\ UNCHANGED <<next_pk, response, returned, storage0>>

\* The table refuses the deletion: the exception leaves delete().
DeleteObjectFails ==
    /\ Runs("object_delete")
    /\ returned' = Raise("DatabaseError")
    /\ pc' = 0
    /\ trace' = Append(trace, Step("object_delete_failed", storage, response))
    /\ UNCHANGED <<storage, next_pk, self, response, storage0>>

DeleteReturn ==
    /\ Runs("return_response")
    /\ returned' = response
    /\ pc' = 0
    /\ trace' = Append(trace, Step("return_response", storage, response))
    /\ UNCHANGED <<storage, next_pk, self, response, storage0>>

Next ==
    \/ StreamViewRequest
    \/ TemplateViewGet
    \/ FormGet
    \/ FormPost
    \/ DeleteRequest
    \/ DeleteGetObject
    \/ DeleteRender
    \/ DeleteObject
    \/ DeleteObjectFails
    \/ DeleteReturn

Spec == Init /\ [][Next]_vars

(***************************************************************************)
(* The delete view.                                                        *)
(***************************************************************************)
IsDelete == self.view = "TurboStreamDeleteView"

Steps == [i \in 1..Len(trace) |-> trace[i].step]

IsPrefix(s, t) == Len(s) <= Len(t) /\ \A i \in 1..Len(s) : s[i] = t[i]

\* The text of "{model_name}-{pk}" for the request's model and pk.
TargetText == Join(self.model_name) \o "-" \o ToString(Get(self.pk))

DeleteSucceeded == IsDelete /\ pc = 0 /\ returned.kind = "stream"

\* C1: once a delete request has returned its response, the row of the
\* request's pk, which was in the table, is gone and a lookup of it raises
\* Http404; the response is a turbo-stream one whose target is
\* "{model_name}-{pk}" with the pk the row had, never "-None".
C1_DeleteRemovesRowAndNamesIt ==
    DeleteSucceeded =>
        /\ Get(self.pk) \in DOMAIN storage0
        /\ Get(self.pk) \notin DOMAIN storage
        /\ storage = Without(storage0, Get(self.pk))
        /\ get_object(storage, self) = None
        /\ returned.content_type = "text/html; turbo-stream; charset=utf-8"
        /\ Join(returned.target) = TargetText
        /\ returned.target # self.model_name \o <<"-", "None">>
        /\ returned.content =
               "<turbo-stream action=\"remove\" target=\"" \o TargetText
                   \o "\"><template></template></turbo-stream>"

C1_Witness == DeleteSucceeded /\ self.pk = Some(2) /\ 1 \in DOMAIN storage

DeleteOrder ==
    <<"get_object", "get_turbo_stream_target", "render_turbo_stream_response",
      "object_delete", "return_response">>

\* C2: the steps a delete request has taken are, in this order: load the
\* row, compute the target, build the response, delete the row, return.  The
\* row is in the table when the target is computed and the response built,
\* and out of it from the deletion on; from its construction on the response
\* is the same value, and that value is what is returned.
C2_DeleteOrder ==
    IsDelete =>
        /\ \/ IsPrefix(Steps, DeleteOrder)
           \/ /\ Len(Steps) = 4
              /\ IsPrefix(SubSeq(Steps, 1, 3), DeleteOrder)
              /\ Steps[4] = "object_delete_failed"
        /\ \A i \in 1..Len(trace) :
               /\ trace[i].step \in {"get_turbo_stream_target",
                                    "render_turbo_stream_response"}
                      => trace[i].persisted
               /\ trace[i].step \in {"object_delete", "return_response"}
                      => ~trace[i].persisted
               /\ i > 3 => trace[i].response = trace[3].response
               /\ i < 3 => trace[i].response = NoResponse
        /\ Len(trace) >= 3 => response = trace[3].response
        /\ DeleteSucceeded => Steps = DeleteOrder /\ returned = trace[3].response
        /\ pc # 0 => returned = NoResponse

C2_Witness == DeleteSucceeded /\ Len(trace) = 5 /\ ~trace[5].persisted

MissingRow == IsDelete /\ Get(self.pk) \notin DOMAIN storage0

\* C8: a delete request for a pk with no row ends at the load step with
\* Http404: no target is computed, no response built, no deletion attempted,
\* the table is as the request found it, and the step is taken once.
C8_DeleteMissingRow ==
    (MissingRow /\ pc # 1) =>
        /\ pc = 0
        /\ returned = Raise("Http404")
        /\ response = NoResponse
        /\ Steps = <<"get_object">>
        /\ storage = storage0

C8_Witness == MissingRow /\ pc = 0 /\ storage # <<>>

DeleteFailed == IsDelete /\ pc = 0 /\ returned = Raise("DatabaseError")

\* C9: when the deletion fails, the remove response naming the row has been
\* built, the row is still in the table, which is as the request found it,
\* and delete() has ended with the exception: one attempt at the deletion,
\* and no step after it.
C9_DeleteFailureLeavesResponseAndRow ==
    DeleteFailed =>
        /\ response.kind = "stream"
        /\ response.action = <<"remove">>
        /\ Join(response.target) = TargetText
        /\ Get(self.pk) \in DOMAIN storage
        /\ storage = storage0
        /\ Steps = <<"get_object", "get_turbo_stream_target",
                     "render_turbo_stream_response", "object_delete_failed">>

C9_Witness == DeleteFailed /\ response.kind = "stream"

AttrText(s) ==
    CASE s = <<"replace">> -> "replace"
      [] s = <<"app", "'", "end">> -> "app&#x27;end"
      [] s = <<"test">> -> "test"
      [] s = <<"it", "\"", "em", "&", "<", "1", ">">> ->
             "it&quot;em&amp;&lt;1&gt;"

BodyText(s) ==
    CASE s = <<"hello">> -> "hello"
      [] s = <<"<", "b", ">", "Tom ", "&", " Co">> -> "<b>Tom & Co"

StreamViewServed ==
    /\ self.view = "TurboStreamView"
    /\ returned.kind # "none"
    /\ self.turbo_stream_target # None
    /\ self.turbo_stream_action # None

\* C7: the stream view, configured with an action and a target, answers a
\* request of any method with status 200, the turbo-stream content type and
\* <turbo-stream action="A" target="T"><template>B</template></turbo-stream>
\* where A and T are the action and target with & < > " ' escaped and B is
\* the content as it is; replace, test and hello give the text of the
\* specification's example.
C7_StreamViewWraps ==
    StreamViewServed =>
        /\ returned.kind = "stream"
        /\ returned.status_code = 200
        /\ returned.content_type = "text/html; turbo-stream; charset=utf-8"
        /\ returned.content =
               "<turbo-stream action=\""
                   \o AttrText(Get(self.turbo_stream_action))
                   \o "\" target=\""
                   \o AttrText(Get(self.turbo_stream_target))
                   \o "\"><template>" \o BodyText(self.content)
                   \o "</template></turbo-stream>"
        /\ ( /\ self.turbo_stream_action = Some(<<"replace">>)
             /\ self.turbo_stream_target = Some(<<"test">>)
             /\ self.content = <<"hello">> )
               => returned.content =
                      "<turbo-stream action=\"replace\" target=\"test\"><template>hello</template></turbo-stream>"

C7_Witness ==
    /\ StreamViewServed
    /\ self.method = "DELETE"
    /\ self.turbo_stream_target = Some(<<"it", "\"", "em", "&", "<", "1", ">">>)
    /\ self.turbo_stream_action = Some(<<"app", "'", "end">>)
    /\ self.content = <<"<", "b", ">", "Tom ", "&", " Co">>
    /\ returned.kind = "stream"

(***************************************************************************)
(* The form, create and update views.                                      *)
(***************************************************************************)
TurboKeys == {"is_turbo_stream", "turbo_stream_action", "turbo_stream_target"}

\* The request is one that a form view has answered: for an update view, a
\* request for a row the table holds.
FormServed(method) ==
    /\ self.view \in FormViews
    /\ self.method = method
    /\ pc = 0
    /\ self.view = "TurboUpdateView" => Get(self.pk) \in DOMAIN storage0

InvalidPost ==
    FormServed("POST") /\ self.data = "" /\ self.turbo_stream_target # None

PartialName ==
    CASE self.template_name = "my_form.html" -> "_my_form.html"
      [] self.template_name = "form.html" -> "_form.html"

\* C3: a POST that fails validation, to a form, create or update view with a
\* configured target, gets status 200, the turbo-stream content type, the
\* template "_" + template_name, and a context with is_turbo_stream true,
\* turbo_stream_action "replace" and turbo_stream_target the configured
\* target; the table is as the request found it.
C3_InvalidPostIsStreamed ==
    InvalidPost =>
        /\ returned.kind = "template"
        /\ returned.status_code = 200
        /\ returned.content_type = "text/html; turbo-stream; charset=utf-8"
        /\ returned.template_name = <<PartialName>>
        /\ TurboKeys \subseteq DOMAIN returned.context_data
        /\ returned.context_data.is_turbo_stream = TRUE
        /\ returned.context_data.turbo_stream_action = <<"replace">>
        /\ returned.context_data.turbo_stream_target
               = Get(self.turbo_stream_target)
        /\ storage = storage0

C3_Witness ==
    InvalidPost /\ self.view = "TurboUpdateView" /\ storage # <<>>
        /\ self.template_name = "form.html"

\* C4: a GET to a form, create or update view gets status 200, the content
\* type text/html; charset=utf-8, the template template_name itself, and a
\* context with none of the turbo-stream keys; and a rendered response's
\* context has the turbo-stream keys exactly when its content type is the
\* turbo-stream one.
C4_GetIsPlain ==
    /\ FormServed("GET") =>
           /\ returned.kind = "template"
           /\ returned.status_code = 200
           /\ returned.content_type = "text/html; charset=utf-8"
           /\ returned.template_name = <<self.template_name>>
           /\ DOMAIN returned.context_data \cap TurboKeys = {}
    /\ returned.kind = "template" =>
           /\ TurboKeys \subseteq DOMAIN returned.context_data
                  <=> returned.content_type
                          = "text/html; turbo-stream; charset=utf-8"
           /\ DOMAIN returned.context_data \cap TurboKeys = {}
                  <=> returned.content_type = "text/html; charset=utf-8"

C4_Witness ==
    FormServed("GET") /\ self.view = "TurboUpdateView"
        /\ self.turbo_stream_target # None /\ returned.kind = "template"

ValidPost == FormServed("POST") /\ self.data # ""

ModelSaved == ValidPost /\ self.view \in {"TurboCreateView", "TurboUpdateView"}

C6_ValidPostRedirectsAfterSaving ==
    ValidPost =>
        /\ returned.kind = "redirect"
        /\ returned.url = self.success_url
        /\ returned.url \in {"/done/", "/todos/"}
        /\ DOMAIN returned \cap {"template_name", "content", "action"} = {}
        /\ self.view = "TurboCreateView" =>
               /\ Cardinality(DOMAIN storage)
                      = Cardinality(DOMAIN storage0) + 1
               /\ \E k \in DOMAIN storage \ DOMAIN storage0 :
                      /\ storage[k] = self.data
                      /\ Without(storage, k) = storage0
        /\ self.view = "TurboUpdateView" =>
               /\ DOMAIN storage = DOMAIN storage0
               /\ storage[Get(self.pk)] = self.data
               /\ Without(storage, Get(self.pk))
                      = Without(storage0, Get(self.pk))
        /\ self.view = "TurboFormView" => storage = storage0

C6_Witness ==
    /\ ValidPost
    /\ self.view = "TurboUpdateView"
    /\ storage0[Get(self.pk)] = "ok"
    /\ storage[Get(self.pk)] = "updated!"
    /\ Cardinality(DOMAIN storage) = 2

====
